---- MODULE Spec2Model ----
(***************************************************************************)
(* consul/dnsdisc.py: one run of main().  The Consul catalog, the          *)
(* tree_creator child process with its JSON-RPC endpoint, and the          *)
(* CloudFlare zone are the environment: their state is chosen in Init and  *)
(* the outcome of every call to them (answer or exception) is chosen at    *)
(* the call.                                                               *)
(***************************************************************************)
EXTENDS Integers, Sequences, FiniteSets, TLC

\* ------------------------------------------------------------------ bounds
MaxDcs  == 2      \* datacenters the catalog lists
MaxTail == 2      \* TXT records of the zone that are drawn freely

\* 'per_page':1000 of the dns_records.get call
per_page == 1000

\* --------------------------------------------------------------- strings
\* A string is a sequence of characters.
Domain  == <<"d", ".", "o">>                 \* opts.domain
RootName == <<"d", ".", "o">>                \* the root entry
SubName  == <<"t", ".", "d", ".", "o">>      \* an entry under the domain
OtherName == <<"d", ".", "o", ".", "x">>     \* holds the domain, not as its end
FillName == <<"w", ".", "o">>                \* a TXT record of another tree

\* str.endswith
endswith(s, suffix) ==
    /\ Len(suffix) <= Len(s)
    /\ \A k \in 1..Len(suffix) : s[Len(s) - Len(suffix) + k] = suffix[k]

\* ------------------------------------------------------------ environment
\* A catalog entry as catalog.service() returns it; every entry carries the
\* node_enode metadata main reads.
Instance(node, enr) ==
    [Node |-> node, ServiceID |-> "enr", node_enode |-> enr]

iA == Instance("n1", "enr:aaa")
iB == Instance("n2", "enr:bbb")

\* What one datacenter answers to the run's query (service, dc, node_meta).
Answers == {<<>>, <<iA>>, <<iA, iB>>, <<iB, iA>>, <<iA, iA>>}

RECURSIVE SeqsUpTo(_, _)
SeqsUpTo(S, n) ==
    IF n = 0 THEN {<<>>}
    ELSE LET shorter == SeqsUpTo(S, n - 1)
         IN  shorter \cup {Append(s, x) : s \in shorter, x \in S}

Min(a, b) == IF a <= b THEN a ELSE b

\* A TXT record of the zone.
Record(id, name, content) == [id |-> id, name |-> name, content |-> content]

\* A zone: fill records of another tree, then the tail; ids follow the
\* listing order.
Zone(fill, tail) ==
    [k \in 1..(fill + Len(tail)) |->
        IF k <= fill THEN Record(k, FillName, "old")
        ELSE Record(k, tail[k - fill], "old")]

ZoneNames == {RootName, SubName, OtherName}

\* The mappings the generator may return: name -> content, in the order of
\* the JSON object (a dict keeps it), names distinct.
Entry(name, content) == [name |-> name, content |-> content]
GenNames == {RootName, SubName}
Entries == {Entry(n, c) : n \in GenNames, c \in {"c1", "c2"}}
Mappings ==
    {m \in SeqsUpTo(Entries, Cardinality(GenNames)) :
        \A a, b \in 1..Len(m) : a # b => m[a].name # m[b].name}

\* The 'result' member of a response: absent, not a mapping, or a mapping.
NoValue == [kind |-> "none", map |-> <<>>]
Results ==
    {[kind |-> "absent", map |-> <<>>], [kind |-> "null", map |-> <<>>]}
    \cup {[kind |-> "mapping", map |-> m] : m \in Mappings}

\* What the POST to the generator ends in.
Responses ==
    {[status |-> "json", result |-> r, error |-> e] :
        r \in Results, e \in BOOLEAN}
NoResponse == [status |-> "none", result |-> NoValue, error |-> FALSE]

\* ------------------------------------------------------------------ state
VARIABLES
    consul,         \* the catalog: per listed datacenter, its answer
    zone,           \* the zone's TXT records, in listing order
    zone0,          \* the zone as the run found it
    pc,             \* where main() is
    dc,             \* all_services: index of the datacenter being queried
    rval,           \* all_services: rval
    service_enrs,   \* main: service_enrs
    process,        \* DNSDiscovery: self.process ("unset" when never assigned)
    spawns,         \* argument lists the child was launched with
    kills,          \* calls of process.kill()
    rpcs,           \* RPC requests sent
    response,       \* what the RPC request ended in
    exc,            \* exception in flight inside generate()
    ret,            \* value generate() is returning
    new_records,    \* main: new_records
    old_records,    \* main: old_records
    i,              \* main: position in the delete or the create loop
    calls,          \* calls made to the DNS provider
    failedAt,       \* the call that raised first
    error           \* the exception main() ended with

vars == <<consul, zone, zone0, pc, dc, rval, service_enrs, process, spawns,
          kills, rpcs, response, exc, ret, new_records, old_records, i,
          calls, failedAt, error>>

\* ---------------------------------------------------------- ConsulCatalog
\* Mutant of extend: an instance the list already holds is not added again.
extend_unique(xs, ys) ==
    xs \o SelectSeq(ys, LAMBDA y : \A k \in 1..Len(xs) : xs[k] # y)

\* rval.extend(xs)
extend(xs, ys) == xs \o ys

\* [s['ServiceMeta']['node_enode'] for s in services]
enrs_of(services) == [k \in 1..Len(services) |-> services[k].node_enode]

\* ----------------------------------------------------------- DNSDiscovery
\* Mutant of records: .get('result', {}) in place of ['result'].
records_default(resp) ==
    IF resp.result.kind = "absent"
    THEN [exc |-> "none", val |-> [kind |-> "mapping", map |-> <<>>]]
    ELSE [exc |-> "none", val |-> resp.result]

\* self._rpc('get_txt_records')['result']
records(resp) ==
    IF resp.result.kind = "absent"
    THEN [exc |-> "KeyError", val |-> NoValue]
    ELSE [exc |-> "none", val |-> resp.result]

\* -------------------------------------------------------------- CFManager
\* client.zones.dns_records.get(zone, params={'type':'txt','per_page':1000}):
\* one request, so one page of at most per_page records.
dns_records_get(z) == SubSeq(z, 1, Min(Len(z), per_page))

\* str.startswith
startswith(s, prefix) ==
    /\ Len(prefix) <= Len(s)
    /\ \A k \in 1..Len(prefix) : s[k] = prefix[k]

\* Mutant of txt_records: the filter tests startswith.
txt_records_startswith(z, suffix) ==
    SelectSeq(dns_records_get(z), LAMBDA r : startswith(r.name, suffix))

\* list(filter(lambda r: r['name'].endswith(suffix), records))
txt_records(z, suffix) ==
    SelectSeq(dns_records_get(z), LAMBDA r : endswith(r.name, suffix))

\* The zone after dns_records.delete(zone, record_id) succeeded.
deleted(z, id) == SelectSeq(z, LAMBDA r : r.id # id)

\* The zone after dns_records.post(zone, data={name, content, 'TXT'}) succeeded.
created(z, id, name, content) == Append(z, Record(id, name, content))

Call(op, id, name, content, ok) ==
    [op |-> op, id |-> id, name |-> name, content |-> content, ok |-> ok]

\* ------------------------------------------------------------------- Init
InitRun ==
    /\ zone0 = zone
    /\ pc = "dcs"
    /\ dc = 1
    /\ rval = <<>>
    /\ service_enrs = <<>>
    /\ process = "unset"
    /\ spawns = <<>>
    /\ kills = 0
    /\ rpcs = 0
    /\ response = NoResponse
    /\ exc = "none"
    /\ ret = NoValue
    /\ new_records = NoValue
    /\ old_records = <<>>
    /\ i = 1
    /\ calls = <<>>
    /\ failedAt = "none"
    /\ error = "none"

\* Any catalog, the zone of one tree.
InitCatalogs ==
    /\ consul \in SeqsUpTo(Answers, MaxDcs)
    /\ zone = Zone(0, <<RootName, OtherName, SubName, SubName>>)

\* A catalog without or with one instance, any zone: small, or with a first
\* page that the fill records leave one place on.
InitZones ==
    /\ consul \in {<<>>, <<<<iA>>>>}
    /\ \E fill \in {0, per_page - 1}, tail \in SeqsUpTo(ZoneNames, MaxTail) :
           zone = Zone(fill, tail)

Init == (InitCatalogs \/ InitZones) /\ InitRun

\* ------------------------------------------------------------ the actions
Abort(at, e) ==
    /\ pc' = "aborted"
    /\ failedAt' = at
    /\ error' = e

\* all_services: self.dcs()
all_services_dcs ==
    /\ pc = "dcs"
    /\ \/ /\ pc' = "services"
          /\ UNCHANGED <<failedAt, error>>
       \/ Abort("dcs", "ConsulException")
    /\ UNCHANGED <<consul, zone, zone0, dc, rval, service_enrs, process,
                   spawns, kills, rpcs, response, exc, ret, new_records,
                   old_records, i, calls>>

\* Mutant of all_services_loop: a datacenter whose query raises is skipped.
all_services_loop_skip ==
    /\ pc = "services"
    /\ dc <= Len(consul)
    /\ \/ /\ rval' = extend(rval, consul[dc])
          /\ UNCHANGED failedAt
       \/ /\ failedAt' = "services"
          /\ UNCHANGED rval
    /\ dc' = dc + 1
    /\ UNCHANGED <<consul, zone, zone0, pc, service_enrs, process, spawns,
                   kills, rpcs, response, exc, ret, new_records, old_records,
                   i, calls, error>>

\* all_services: one turn of the loop over the datacenters
all_services_loop ==
    /\ pc = "services"
    /\ dc <= Len(consul)
    /\ \/ /\ rval' = extend(rval, consul[dc])
          /\ dc' = dc + 1
          /\ UNCHANGED <<pc, failedAt, error>>
       \/ /\ Abort("services", "ConsulException")
          /\ UNCHANGED <<rval, dc>>
    /\ UNCHANGED <<consul, zone, zone0, service_enrs, process, spawns, kills,
                   rpcs, response, exc, ret, new_records, old_records, i,
                   calls>>

\* main: all_services returned; service_enrs is built
main_enrs ==
    /\ pc = "services"
    /\ dc > Len(consul)
    /\ service_enrs' = enrs_of(rval)
    /\ pc' = "start"
    /\ UNCHANGED <<consul, zone, zone0, dc, rval, process, spawns, kills,
                   rpcs, response, exc, ret, new_records, old_records, i,
                   calls, failedAt, error>>

\* start: Popen([...]) and the sleep, up to the yield
start_Popen ==
    /\ pc = "start"
    /\ \/ /\ process' = "running"
          /\ spawns' = Append(spawns, service_enrs)
          /\ pc' = "rpc"
          /\ UNCHANGED <<exc, failedAt>>
       \/ /\ exc' = "OSError"
          /\ failedAt' = "popen"
          /\ pc' = "finally"
          /\ UNCHANGED <<process, spawns>>
    /\ UNCHANGED <<consul, zone, zone0, dc, rval, service_enrs, kills, rpcs,
                   response, ret, new_records, old_records, i, calls, error>>

\* generate: return self.records() inside the with block
generate_records ==
    /\ pc = "rpc"
    /\ rpcs' = rpcs + 1
    /\ pc' = "finally"
    /\ \/ /\ response' = [NoResponse EXCEPT !.status = "refused"]
          /\ exc' = "ConnectionError"
          /\ failedAt' = "rpc"
          /\ UNCHANGED ret
       \/ /\ response' = [NoResponse EXCEPT !.status = "badjson"]
          /\ exc' = "JSONDecodeError"
          /\ failedAt' = "rpc"
          /\ UNCHANGED ret
       \/ \E resp \in Responses :
            /\ response' = resp
            /\ exc' = records(resp).exc
            /\ ret' = records(resp).val
            /\ failedAt' = IF records(resp).exc = "none" THEN "none" ELSE "rpc"
    /\ UNCHANGED <<consul, zone, zone0, dc, rval, service_enrs, process,
                   spawns, kills, new_records, old_records, i, calls, error>>

\* Mutant of start_finally: the kill follows the yield with no finally, so
\* an exception of the with block passes it by.
start_no_finally ==
    /\ pc = "finally"
    /\ IF exc # "none"
       THEN /\ error' = exc
            /\ pc' = "aborted"
            /\ UNCHANGED <<process, kills, new_records>>
       ELSE /\ process' = "killed"
            /\ kills' = kills + 1
            /\ new_records' = ret
            /\ pc' = "items"
            /\ UNCHANGED error
    /\ UNCHANGED <<consul, zone, zone0, dc, rval, service_enrs, spawns, rpcs,
                   response, exc, ret, old_records, i, calls, failedAt>>

\* start: finally: self.process.kill()
start_finally ==
    /\ pc = "finally"
    /\ IF process = "unset"
       THEN /\ error' = "AttributeError"
            /\ pc' = "aborted"
            /\ UNCHANGED <<process, kills, new_records>>
       ELSE /\ process' = "killed"
            /\ kills' = kills + 1
            /\ IF exc # "none"
               THEN /\ error' = exc
                    /\ pc' = "aborted"
                    /\ UNCHANGED new_records
               ELSE /\ new_records' = ret
                    /\ pc' = "items"
                    /\ UNCHANGED error
    /\ UNCHANGED <<consul, zone, zone0, dc, rval, service_enrs, spawns, rpcs,
                   response, exc, ret, old_records, i, calls, failedAt>>

\* main: for record, value in new_records.items()
main_items ==
    /\ pc = "items"
    /\ IF new_records.kind = "mapping"
       THEN /\ pc' = "cf"
            /\ UNCHANGED <<failedAt, error>>
       ELSE Abort("items", "AttributeError")
    /\ UNCHANGED <<consul, zone, zone0, dc, rval, service_enrs, process,
                   spawns, kills, rpcs, response, exc, ret, new_records,
                   old_records, i, calls>>

\* CFManager(...): zones.get and the search of the zone
CFManager_init ==
    /\ pc = "cf"
    /\ \/ /\ calls' = Append(calls, Call("zones", 0, <<>>, "", TRUE))
          /\ pc' = "txt_records"
          /\ UNCHANGED <<failedAt, error>>
       \/ /\ calls' = Append(calls, Call("zones", 0, <<>>, "", TRUE))
          /\ Abort("zone", "StopIteration")
       \/ /\ calls' = Append(calls, Call("zones", 0, <<>>, "", FALSE))
          /\ Abort("zones", "CloudFlareAPIError")
    /\ UNCHANGED <<consul, zone, zone0, dc, rval, service_enrs, process,
                   spawns, kills, rpcs, response, exc, ret, new_records,
                   old_records, i>>

\* main: old_records = cf.txt_records(opts.domain)
main_txt_records ==
    /\ pc = "txt_records"
    /\ \/ /\ calls' = Append(calls, Call("list", 0, <<>>, "", TRUE))
          /\ old_records' = txt_records(zone, Domain)
          /\ i' = 1
          /\ pc' = IF txt_records(zone, Domain) # <<>> THEN "delete"
                   ELSE IF new_records.map # <<>> THEN "create"
                   ELSE "done"
          /\ UNCHANGED <<failedAt, error>>
       \/ /\ calls' = Append(calls, Call("list", 0, <<>>, "", FALSE))
          /\ Abort("list", "CloudFlareAPIError")
          /\ UNCHANGED <<old_records, i>>
    /\ UNCHANGED <<consul, zone, zone0, dc, rval, service_enrs, process,
                   spawns, kills, rpcs, response, exc, ret, new_records>>

\* Mutant of main_delete: a delete that raises is logged and the loop goes on.
main_delete_suppress ==
    /\ pc = "delete"
    /\ \/ /\ calls' = Append(calls,
                        Call("delete", old_records[i].id, <<>>, "", TRUE))
          /\ zone' = deleted(zone, old_records[i].id)
          /\ UNCHANGED failedAt
       \/ /\ calls' = Append(calls,
                        Call("delete", old_records[i].id, <<>>, "", FALSE))
          /\ failedAt' = "delete"
          /\ UNCHANGED zone
    /\ IF i < Len(old_records)
       THEN i' = i + 1 /\ pc' = "delete"
       ELSE /\ i' = 1
            /\ pc' = IF new_records.map # <<>> THEN "create" ELSE "done"
    /\ UNCHANGED <<consul, zone0, dc, rval, service_enrs, process, spawns,
                   kills, rpcs, response, exc, ret, new_records, old_records,
                   error>>

\* main: one turn of the loop cf.delete(record['id'])
main_delete ==
    /\ pc = "delete"
    /\ \/ /\ calls' = Append(calls,
                        Call("delete", old_records[i].id, <<>>, "", TRUE))
          /\ zone' = deleted(zone, old_records[i].id)
          /\ IF i < Len(old_records)
             THEN i' = i + 1 /\ pc' = "delete"
             ELSE /\ i' = 1
                  /\ pc' = IF new_records.map # <<>> THEN "create" ELSE "done"
          /\ UNCHANGED <<failedAt, error>>
       \/ /\ calls' = Append(calls,
                        Call("delete", old_records[i].id, <<>>, "", FALSE))
          /\ Abort("delete", "CloudFlareAPIError")
          /\ UNCHANGED <<zone, i>>
    /\ UNCHANGED <<consul, zone0, dc, rval, service_enrs, process, spawns,
                   kills, rpcs, response, exc, ret, new_records, old_records>>

\* main: one turn of the loop cf.create(name, value)
main_create ==
    /\ pc = "create"
    /\ LET e == new_records.map[i] IN
       \/ /\ calls' = Append(calls, Call("create", 0, e.name, e.content, TRUE))
          /\ zone' = created(zone, Len(zone0) + i, e.name, e.content)
          /\ IF i < Len(new_records.map)
             THEN i' = i + 1 /\ pc' = "create"
             ELSE i' = i /\ pc' = "done"
          /\ UNCHANGED <<failedAt, error>>
       \/ /\ calls' = Append(calls, Call("create", 0, e.name, e.content, FALSE))
          /\ Abort("create", "CloudFlareAPIError")
          /\ UNCHANGED <<zone, i>>
    /\ UNCHANGED <<consul, zone0, dc, rval, service_enrs, process, spawns,
                   kills, rpcs, response, exc, ret, new_records, old_records>>

Next ==
    \/ all_services_dcs
    \/ all_services_loop
    \/ main_enrs
    \/ start_Popen
    \/ generate_records
    \/ start_finally
    \/ main_items
    \/ CFManager_init
    \/ main_txt_records
    \/ main_delete
    \/ main_create

Spec == Init /\ [][Next]_vars

\* ------------------------------------------------------------ the claims
Finished == pc \in {"done", "aborted"}

\* s ends with suffix: some split of s has suffix as its second part.
HasSuffix(s, suffix) ==
    \E p \in 0..Len(s) : SubSeq(s, p + 1, Len(s)) = suffix

Ids(z) == {z[k].id : k \in DOMAIN z}
Matching(z) == {k \in DOMAIN z : HasSuffix(z[k].name, Domain)}
CallsOf(op) == {k \in DOMAIN calls : calls[k].op = op}
Listed == \E k \in CallsOf("list") : calls[k].ok

\* generate() was entered and has returned or raised.
GenerateLeft == pc \in {"items", "cf", "txt_records", "delete", "create"}
                \/ (Finished /\ failedAt \notin {"dcs", "services"})

\* C1: when the child process was launched, kill() has been called exactly
\* once by the time generate returns or raises, whatever the RPC ended in;
\* it is not called while the RPC is pending and never a second time.
C1_KilledExactlyOnce ==
    /\ kills <= Len(spawns)
    /\ Len(spawns) <= 1
    /\ (pc \in {"rpc", "finally"} /\ Len(spawns) = 1) =>
           (kills = 0 /\ process = "running")
    /\ (GenerateLeft /\ Len(spawns) = 1) =>
           (kills = 1 /\ process = "killed")

\* C1 witness: the transport failed and generate has raised.
C1_Witness ==
    /\ pc = "aborted"
    /\ response.status = "refused"
    /\ Len(spawns) = 1
    /\ kills = 1

NoDnsWrite == CallsOf("delete") = {} /\ CallsOf("create") = {}

\* C2 as stated: a response that lacks 'result' or carries 'error' aborts
\* the run with no DNS record deleted or created and the child killed.
C2_ErrorResponseAborts ==
    (/\ response.status = "json"
     /\ (response.result.kind = "absent" \/ response.error)
     /\ pc # "finally") =>
        (pc = "aborted" /\ NoDnsWrite /\ zone = zone0 /\ kills = 1)

\* C2 amended: a response that lacks 'result' aborts the run with no DNS
\* record deleted or created and the child killed.
C2_MissingResultAborts ==
    (/\ response.status = "json"
     /\ response.result.kind = "absent"
     /\ pc # "finally") =>
        (/\ pc = "aborted"
         /\ error = "KeyError"
         /\ NoDnsWrite
         /\ zone = zone0
         /\ kills = 1
         /\ process = "killed")

\* C2 witness: an error response, without 'result', ended the run.
C2_Witness ==
    /\ pc = "aborted"
    /\ response.status = "json"
    /\ response.result.kind = "absent"
    /\ response.error

\* The create calls, in order, as entries.
RECURSIVE CreatesFrom(_)
CreatesFrom(k) ==
    IF k > Len(calls) THEN <<>>
    ELSE IF calls[k].op = "create" /\ calls[k].ok
         THEN <<Entry(calls[k].name, calls[k].content)>> \o CreatesFrom(k + 1)
         ELSE CreatesFrom(k + 1)

\* C3: in a run where every stage succeeded, every record the zone held
\* whose name ends with the domain is deleted, the creates are the entries
\* of the generator's mapping, one each, and every delete precedes every
\* create.
C3_FullReplace ==
    pc = "done" =>
        /\ \A k \in Matching(zone0) : zone0[k].id \notin Ids(zone)
        /\ CreatesFrom(1) = response.result.map
        /\ CallsOf("create") = {k \in DOMAIN calls :
                                  k > Len(calls) - Len(response.result.map)}
        /\ \A d \in CallsOf("delete"), c \in CallsOf("create") : d < c

\* C4: when the k-th delete of n fails, the run is over: old records
\* 1..k-1 are gone, k..n are in the zone, the failed delete is the last
\* provider call, and nothing was created.
C4_DeleteFailureAborts ==
    failedAt = "delete" =>
        /\ pc = "aborted"
        /\ error = "CloudFlareAPIError"
        /\ i \in 1..Len(old_records)
        /\ \A j \in 1..(i - 1) : old_records[j].id \notin Ids(zone)
        /\ \A j \in i..Len(old_records) :
               \E m \in DOMAIN zone : zone[m] = old_records[j]
        /\ Cardinality(CallsOf("delete")) = i
        /\ \A c \in CallsOf("delete") :
               calls[c].ok = (c # Len(calls))
        /\ calls[Len(calls)].op = "delete"
        /\ calls[Len(calls)].id = old_records[i].id
        /\ CallsOf("create") = {}
        /\ Len(zone) = Len(zone0) - (i - 1)

\* C4 witness: the 2nd delete of 3 failed.
C4_Witness ==
    /\ failedAt = "delete"
    /\ i = 2
    /\ Len(old_records) = 3

\* Where datacenter d's instances start in the concatenation.
RECURSIVE Offset(_)
Offset(d) == IF d <= 1 THEN 0 ELSE Offset(d - 1) + Len(consul[d - 1])

\* C5: all_services returns the datacenters' instance lists one after the
\* other, in listing order, each in its own order, nothing dropped.
C5_Concatenation ==
    (pc \notin {"dcs", "services"} /\ failedAt \notin {"dcs", "services"}) =>
        /\ Len(rval) = Offset(Len(consul) + 1)
        /\ \A d \in DOMAIN consul : \A k \in DOMAIN consul[d] :
               rval[Offset(d) + k] = consul[d][k]

\* C5 witness: two datacenters that both hold instance iA.
C5_Witness ==
    /\ pc = "start"
    /\ consul = <<(<<iA, iB>>), (<<iA>>)>>
    /\ Len(rval) = 3

\* C6: txt_records returns every record of the zone whose name ends with
\* the suffix, however many TXT records the zone holds.
C6_EveryMatchListed ==
    Listed =>
        \A k \in Matching(zone0) :
            \E m \in DOMAIN old_records : old_records[m] = zone0[k]

\* C7: txt_records returns only records whose name ends with the suffix,
\* and a record whose name does not is never deleted.
C7_OnlyMatching ==
    /\ \A m \in DOMAIN old_records : HasSuffix(old_records[m].name, Domain)
    /\ \A c \in CallsOf("delete") :
           /\ calls[c].id \in DOMAIN zone0
           /\ HasSuffix(zone0[calls[c].id].name, Domain)
    /\ LET left == Ids(zone) IN
           \A k \in DOMAIN zone0 :
               zone0[k].id \notin left => HasSuffix(zone0[k].name, Domain)

\* C7 witness: the zone held a record that has the domain inside its name
\* but not at its end, and the run deleted another record.
C7_Witness ==
    /\ pc = "done"
    /\ \E k \in DOMAIN zone0 : zone0[k].name = OtherName
    /\ \E c \in CallsOf("delete") : calls[c].ok

\* C8: when the binary cannot be launched, the spawn failure is the error
\* generate ends with, no RPC was sent and nothing was killed.
C8_SpawnFailureSurfaces ==
    (failedAt = "popen" /\ pc = "aborted") =>
        (error = "OSError" /\ rpcs = 0 /\ kills = 0)

\* C9: when the j-th create of m fails, the run is over: every record the
\* zone held whose name ends with the domain is gone, new records 1..j-1
\* exist, j..m were not created, and the failed create is the last call.
C9_CreateFailureNoRollback ==
    failedAt = "create" =>
        /\ pc = "aborted"
        /\ \A k \in Matching(zone0) : zone0[k].id \notin Ids(zone)
        /\ CreatesFrom(1) = SubSeq(response.result.map, 1, i - 1)
        /\ Cardinality(CallsOf("create")) = i
        /\ calls[Len(calls)].op = "create"
        /\ ~calls[Len(calls)].ok
        /\ Len(zone) = Len(zone0) - Len(old_records) + (i - 1)

\* C10: when a registry call fails, the run is over before the generator is
\* launched and before any call to the DNS provider; the instances
\* collected so far are passed to nothing.
C10_RegistryFailureAborts ==
    failedAt \in {"dcs", "services"} =>
        /\ pc = "aborted"
        /\ error = "ConsulException"
        /\ spawns = <<>>
        /\ process = "unset"
        /\ rpcs = 0
        /\ service_enrs = <<>>
        /\ calls = <<>>
        /\ zone = zone0

\* C10 witness: the second datacenter's query failed after the first one
\* had returned instances.
C10_Witness ==
    /\ failedAt = "services"
    /\ dc = 2
    /\ rval # <<>>

====
